---- MODULE Spec2Model ----
(***************************************************************************)
(* Reference-counted SharedPtr / WeakPtr with EnableSharedFromThis         *)
(* (src/shared-from-this), the SharedPtr without weak support (src/shared) *)
(* and the sole-owner UniquePtr (src/unique).                              *)
(*                                                                         *)
(* Every public operation of a handle is one action.  The helpers below    *)
(* are the private steps of the code (counter updates, Decrement,          *)
(* DeleteObject, delete block_) written as functions from heap to heap.    *)
(* A handle is a variable of the client program or a data member of a      *)
(* managed object; the same operations apply to both.                      *)
(***************************************************************************)
EXTENDS Integers, FiniteSets, Sequences, TLC

\* ---------------------------------------------------------------- bounds
NumShared == 2      \* SharedPtr variables of the client program
NumWeak   == 2      \* WeakPtr variables of the client program
MaxBlocks == 2      \* control blocks allocated in one run
NumUnique == 2      \* UniquePtr variables of the client program
MaxRaw    == 2      \* raw pointers handed to UniquePtr in one run

S == 1..NumShared
W == 1..NumWeak
B == 1..MaxBlocks
U == 1..NumUnique
R == 1..MaxRaw

\* The SharedPtr objects of a program: the variables S, and the member next
\* of the object of each block.  The WeakPtr objects: the variables W, and
\* the member self of the object of each block.
MemberS(o) == NumShared + o
MemberW(o) == NumWeak + o
SS == 1..(NumShared + MaxBlocks)
WS == 1..(NumWeak + MaxBlocks)

\* ---------------------------------------------------------------- pointers
\* nullptr, the address of the object managed by block b, and the address of
\* a sub-object (member) of that object, as used with the aliasing constructor.
Null == 0
ObjPtr(b) == 2 * b
SubPtr(b) == 2 * b + 1

VARIABLES
    lib,     \* the header the program uses: "shared_from_this", "shared", "unique"
    xtype,   \* the managed type X of the program's SharedPtr<X> and WeakPtr<X>
    sp,      \* sp[s]: the SharedPtr variables (live, ptr_, block_)
    wp,      \* wp[w]: the WeakPtr variables (live, ptr_, block_)
    heap,    \* control blocks, managed objects, and the fault of the run
    up,      \* up[u]: the UniquePtr variables (live, pair_.first)
    raw,     \* raw[r]: the objects handed to UniquePtr
    last     \* the operation executed last and its outcome

vars == <<lib, xtype, sp, wp, heap, up, raw, last>>

\* ---------------------------------------------------------------- heap
\* One entry per control block.  The managed object is recorded with its
\* block: alive, mixin (it embeds EnableSharedFromThis) with weak_this_, and
\* the handle it has as a data member (member is "next", a SharedPtr<X>,
\* "self", a WeakPtr<X>, or "none"; mPtr and mBlock are its ptr_ and block_).
\* ptr is ControlBlockPointer::ptr_ or ControlBlockHolder::GetPointer(): the
\* two kinds of block differ in where the object is stored, not in what the
\* handles do with them, and one record stands for both.
\* destroyed is the pointer DeleteObject has destroyed; freedBy is the kind
\* of handle ("shared" or "weak") whose Decrement has freed the block;
\* dtorLock is what SharedFromThis() returned to the destructor of the object
\* ("empty" or "bound"), for a type whose destructor calls it.
\* In a program that counts its allocations, kind is "pointer" for a
\* ControlBlockPointer and "holder" for a ControlBlockHolder, nNew the number
\* of new-expressions that allocated the object and the block, and nDelete
\* the number of deallocations.  An object whose control block could not be
\* allocated has the state "orphan".
NoBlock == [state |-> "none", strong |-> 0, weak |-> 0,
            ptr |-> Null, alive |-> FALSE, mixin |-> FALSE,
            wtPtr |-> Null, wtBlock |-> Null,
            member |-> "none", mPtr |-> Null, mBlock |-> Null,
            destroyed |-> Null, nDeleteObject |-> 0, nFree |-> 0,
            freedBy |-> "none", dtorLock |-> "none",
            kind |-> "none", nNew |-> 0, nDelete |-> 0]

\* ControlBlockBase(): strong_counter_ = 1, weak_counter_ = 0.  The member
\* handle of the new object is default-constructed.
NewBlock(mixin, member, p) ==
    [NoBlock EXCEPT !.state = "live", !.strong = 1, !.weak = 0,
                    !.ptr = p, !.alive = TRUE, !.mixin = mixin,
                    !.member = member]

\* An object of the managed type that the program holds by value, made as a
\* copy of a managed object (X c(*p)): the mixin it embeds has a weak_this_
\* of its own, with the fields wtPtr and wtBlock.
NoCopy == [live |-> FALSE, wtPtr |-> Null, wtBlock |-> Null]

EmptyHeap == [b |-> [x \in B |-> NoBlock], fault |-> "none", cp |-> NoCopy]

Faulted(h) == h.fault # "none"
Fault(h, f) == IF Faulted(h) THEN h ELSE [h EXCEPT !.fault = f]

\* Every read or write of *block_ goes through Access: a freed block is a
\* use after free, and the run is not followed past it.
Access(h, b) ==
    IF Faulted(h) \/ h.b[b].state = "live" THEN h ELSE Fault(h, "useAfterFree")

GetStrongCounter(h, b) == h.b[b].strong
GetWeakCounter(h, b) == h.b[b].weak

IncreaseStrongCounter(h, b) ==
    LET a == Access(h, b) IN
    IF Faulted(a) THEN a
    ELSE [a EXCEPT !.b[b].strong = @ + 1]

IncreaseWeakCounter(h, b) ==
    LET a == Access(h, b) IN
    IF Faulted(a) THEN a
    ELSE [a EXCEPT !.b[b].weak = @ + 1]

DecreaseStrongCounter(h, b) ==
    LET a == Access(h, b) IN
    IF Faulted(a) THEN a
    ELSE [a EXCEPT !.b[b].strong = @ - 1]

DecreaseWeakCounter(h, b) ==
    LET a == Access(h, b) IN
    IF Faulted(a) THEN a
    ELSE [a EXCEPT !.b[b].weak = @ - 1]

\* delete block_: the storage is gone.  The counters keep the values they
\* had when the block was freed, for the record; nothing reads them.
DeleteBlock(h, b, by) ==
    IF Faulted(h) THEN h
    ELSE IF h.b[b].state # "live" THEN Fault(h, "doubleFree")
    ELSE [h EXCEPT !.b[b] = [NoBlock EXCEPT !.state = "freed",
                                            !.strong = h.b[b].strong,
                                            !.weak = h.b[b].weak,
                                            !.destroyed = h.b[b].destroyed,
                                            !.nDeleteObject = h.b[b].nDeleteObject,
                                            !.nFree = h.b[b].nFree + 1,
                                            !.freedBy = by,
                                            !.dtorLock = h.b[b].dtorLock,
                                            !.kind = h.b[b].kind,
                                            !.nNew = h.b[b].nNew,
                                            !.nDelete = h.b[b].nDelete
                                                + IF h.b[b].kind = "none"
                                                  THEN 0 ELSE 1]]

\* Mutant of MixinDestructor: the fields of weak_this_ are not nulled, and
\* the ~WeakPtr of the member that follows releases the registration again.
MixinDestructor_NoNulling(h, b) ==
    IF Faulted(h) THEN h
    ELSE IF h.b[b].wtBlock = Null THEN Fault(h, "nullDeref")
    ELSE LET w == h.b[b].wtBlock
             d == DecreaseWeakCounter(DecreaseWeakCounter(h, w), w)
         IN  IF Faulted(d) THEN d
             ELSE IF GetStrongCounter(d, w) = 0 /\ GetWeakCounter(d, w) = 0
                  THEN DeleteBlock(d, w, "weak")
                  ELSE d

\* ~EnableSharedFromThis(): weak_this_.GetRealBlock()->DecreaseWeakCounter()
\* with no null check, then both fields of weak_this_ are nulled, so that the
\* ~WeakPtr of the member that follows finds block_ == nullptr and does nothing.
MixinDestructor(h, b) ==
    IF Faulted(h) THEN h
    ELSE IF h.b[b].wtBlock = Null THEN Fault(h, "nullDeref")
    ELSE LET d == DecreaseWeakCounter(h, h.b[b].wtBlock) IN
         IF Faulted(d) THEN d
         ELSE [d EXCEPT !.b[b].wtBlock = Null, !.b[b].wtPtr = Null]

\* WeakPtr::Decrement
WeakDecrement(h, b) ==
    IF b = Null \/ Faulted(h) THEN h
    ELSE LET d == DecreaseWeakCounter(h, b) IN
         IF Faulted(d) THEN d
         ELSE IF GetStrongCounter(d, b) = 0 /\ GetWeakCounter(d, b) = 0
              THEN DeleteBlock(d, b, "weak")
              ELSE d

\* SharedPtr<X> WeakPtr::Lock() const applied to the fields (p, b) of a
\* WeakPtr: nullptr for a null block_ and for a strong counter of zero,
\* otherwise SharedPtr<X>(*this), which finds a counter above zero and
\* increases it.
Lock(h, p, b) ==
    IF b = Null THEN [h |-> h, made |-> FALSE]
    ELSE LET a == Access(h, b) IN
         IF Faulted(a) \/ GetStrongCounter(a, b) = 0
         THEN [h |-> a, made |-> FALSE]
         ELSE [h |-> IncreaseStrongCounter(a, b), made |-> TRUE]

\* The type "mixin" has a destructor that calls SharedFromThis().
DtorLocks == xtype = "mixin"

\* The body of that destructor, for the object of block b: weak_this_.Lock()
\* is evaluated, and the SharedPtr it returns is a temporary, destroyed at
\* once.  If it is bound, its Decrement takes the strong counter back to
\* zero and calls DeleteObject on the object whose destructor is running.
DtorBody(h, b) ==
    LET k == Lock(h, h.b[b].wtPtr, h.b[b].wtBlock) IN
    IF Faulted(k.h) THEN k.h
    ELSE IF k.made
         THEN Fault(DecreaseStrongCounter([k.h EXCEPT !.b[b].dtorLock = "bound"],
                                          h.b[b].wtBlock), "doubleDelete")
         ELSE [k.h EXCEPT !.b[b].dtorLock = "empty"]

\* The destructor of the object of block b has been entered and its body
\* has run; the object is no longer alive.
\* delete ptr_ of a ControlBlockPointer gives the storage of the object back;
\* ~T() of a ControlBlockHolder leaves it to the block.
BeginDestructor(h, b) ==
    LET c == [h EXCEPT !.b[b].nDeleteObject = @ + 1, !.b[b].alive = FALSE,
                       !.b[b].destroyed = h.b[b].ptr,
                       !.b[b].mPtr = Null, !.b[b].mBlock = Null,
                       !.b[b].nDelete = @ + IF h.b[b].kind = "pointer"
                                            THEN 1 ELSE 0]
    IN  IF DtorLocks /\ c.b[b].mixin THEN DtorBody(c, b) ELSE c

\* The base class EnableSharedFromThis, where the object has one, is
\* destroyed last.
EndDestructor(h, b, mixin) == IF mixin THEN MixinDestructor(h, b) ELSE h

\* Destroying an object destroys its member handle, whose destructor is a
\* Decrement that may destroy a further object: the five operators that
\* follow call one another.
RECURSIVE DestroyMember(_, _, _)
RECURSIVE DeleteObject(_, _)
RECURSIVE SharedDecrement(_, _)
RECURSIVE DecrementPlain(_, _)
RECURSIVE Decrement(_, _)

\* ControlBlockPointer::DeleteObject (delete ptr_) and
\* ControlBlockHolder::DeleteObject (GetPointer()->~T()): the destructor of
\* the object the block was created for runs, whatever the handles observe.
\* The body of the destructor runs first, then the data member is
\* destroyed, then the base class EnableSharedFromThis.
DeleteObject(h, b) ==
    LET a == Access(h, b) IN
    IF Faulted(a) THEN a
    ELSE IF ~a.b[b].alive THEN Fault(a, "doubleDelete")
    ELSE EndDestructor(DestroyMember(BeginDestructor(a, b), a.b[b].member,
                                     a.b[b].mBlock),
                       b, a.b[b].mixin)

\* ~SharedPtr of the member next, ~WeakPtr of the member self.
DestroyMember(h, member, m) ==
    IF member = "next" THEN Decrement(h, m)
    ELSE IF member = "self" THEN WeakDecrement(h, m)
    ELSE h

\* Mutant of SharedDecrement: with WeakPtrs outstanding the object is kept
\* until the block goes.
SharedDecrement_KeepObject(h, b) ==
    IF b = Null \/ Faulted(h) THEN h
    ELSE LET d == DecreaseStrongCounter(h, b) IN
         IF Faulted(d) THEN d
         ELSE IF GetStrongCounter(d, b) = 0 /\ GetWeakCounter(d, b) = 0
              THEN DeleteBlock(DeleteObject(d, b), b, "shared")
              ELSE d

\* Mutant of SharedDecrement: the block is freed with the object, whatever
\* the weak count.
SharedDecrement_FreeWithWeak(h, b) ==
    IF b = Null \/ Faulted(h) THEN h
    ELSE LET d == DecreaseStrongCounter(h, b) IN
         IF Faulted(d) THEN d
         ELSE IF GetStrongCounter(d, b) = 0
              THEN DeleteBlock(DeleteObject(d, b), b, "shared")
              ELSE d

\* SharedPtr::Decrement of src/shared-from-this.  In the first branch the
\* weak counter is read again, through block_, after DeleteObject: the
\* destructor of the object has run in between and may have released
\* WeakPtrs bound to the block (weak_this_ of a mixin, a member of the
\* object).  In the second branch delete block_ follows DeleteObject.
SharedDecrement(h, b) ==
    IF b = Null \/ Faulted(h) THEN h
    ELSE LET d == DecreaseStrongCounter(h, b) IN
         IF Faulted(d) THEN d
         ELSE IF GetStrongCounter(d, b) = 0 /\ GetWeakCounter(d, b) # 0
              THEN LET o == DeleteObject(d, b)
                       r == Access(o, b)
                   IN  IF Faulted(r) THEN r
                       ELSE IF GetWeakCounter(r, b) = 0 THEN DeleteBlock(r, b, "shared")
                       ELSE r
         ELSE IF GetStrongCounter(d, b) = 0 /\ GetWeakCounter(d, b) = 0
              THEN DeleteBlock(DeleteObject(d, b), b, "shared")
              ELSE d

\* SharedPtr::Decrement of src/shared: one counter, and the block goes with
\* the object.
DecrementPlain(h, b) ==
    IF b = Null \/ Faulted(h) THEN h
    ELSE LET d == DecreaseStrongCounter(h, b) IN
         IF Faulted(d) THEN d
         ELSE IF GetStrongCounter(d, b) = 0
              THEN DeleteBlock(DeleteObject(d, b), b, "shared")
              ELSE d

\* Decrement() as the header in use defines it.
Decrement(h, b) ==
    IF lib = "shared" THEN DecrementPlain(h, b) ELSE SharedDecrement(h, b)

\* EnableSharedFromThis::SetWeakThis(SharedPtr<X> other): the argument is a
\* copy (strong +1); weak_this_ = other builds a temporary WeakPtr from it
\* (weak +1) and move-assigns it (Decrement of the old weak_this_, fields
\* taken over, temporary nulled); the copy is destroyed on return (Decrement).
SetWeakThis(h, o, p, b) ==
    LET c == IncreaseStrongCounter(h, b)
        t == IncreaseWeakCounter(c, b)
        d == WeakDecrement(t, t.b[o].wtBlock)
        m == IF Faulted(d) THEN d
             ELSE [d EXCEPT !.b[o].wtPtr = p, !.b[o].wtBlock = b]
    IN  SharedDecrement(m, b)

\* ---------------------------------------------------------------- handles
NoHandle == [live |-> FALSE, ptr |-> Null, block |-> Null]
Handle(p, b) == [live |-> TRUE, ptr |-> p, block |-> b]

\* The SharedPtr object k and the WeakPtr object k in heap h.  A member
\* exists as long as the object it belongs to.
GetS(h, k) ==
    IF k \in S THEN sp[k]
    ELSE LET x == h.b[k - NumShared] IN
         IF x.alive /\ x.member = "next" THEN Handle(x.mPtr, x.mBlock)
         ELSE NoHandle

GetW(h, k) ==
    IF k \in W THEN wp[k]
    ELSE LET x == h.b[k - NumWeak] IN
         IF x.alive /\ x.member = "self" THEN Handle(x.mPtr, x.mBlock)
         ELSE NoHandle

\* Reading the fields of a handle that is the argument of an operation: a
\* member of an object destroyed earlier in the operation is a dangling
\* reference.
ReadS(h, k) == IF Faulted(h) \/ GetS(h, k).live THEN h ELSE Fault(h, "danglingHandle")
ReadW(h, k) == IF Faulted(h) \/ GetW(h, k).live THEN h ELSE Fault(h, "danglingHandle")

Op(name, a, b, res) == [op |-> name, a |-> a, b |-> b, res |-> res]

Running == heap.fault = "none"
Begin == heap

FreeBlocks == {b \in B : heap.b[b].state = "none"}
FreshBlock == CHOOSE b \in FreeBlocks : \A c \in FreeBlocks : b <= c

\* The managed type X, one per program: "plain"; "mixin", a class deriving
\* from EnableSharedFromThis<X>, so that is_convertible_v<X*,
\* EnableSharedFromThisBase*> holds and the constructors call SetWeakThis;
\* "hidden", a handle type X that does not expose the mixin its objects embed;
\* "node", a class with a member SharedPtr<X> next; "selfweak", a class with
\* a member WeakPtr<X> self; "copied", a class deriving from
\* EnableSharedFromThis<X> of which the program makes copies; "counted", a
\* plain class in a program that counts the calls of operator new and
\* operator delete, and in which operator new may throw std::bad_alloc.
XTypes == {"plain", "mixin", "hidden", "node", "selfweak"}
Embeds == xtype \in {"mixin", "hidden", "copied"}
Wires == xtype \in {"mixin", "copied"}
Counts == xtype = "counted"
AllocOutcomes == IF Counts THEN {"ok", "bad_alloc"} ELSE {"ok"}

\* The block b just allocated, in a program that counts: new X and new
\* ControlBlockPointer<X> for the raw-pointer constructor and Reset(ptr),
\* new ControlBlockHolder<X> alone for MakeShared.
Counted(h, b, kind) ==
    IF Counts THEN [h EXCEPT !.b[b].kind = kind,
                             !.b[b].nNew = IF kind = "pointer" THEN 2 ELSE 1]
    ELSE h

\* new X has succeeded and new ControlBlockPointer<X>(ptr) has thrown: the
\* object at ObjPtr(b) exists and has no control block.
Orphan(h, b) ==
    [h EXCEPT !.b[b] = [NoBlock EXCEPT !.state = "orphan", !.ptr = ObjPtr(b),
                                       !.alive = TRUE, !.kind = "pointer",
                                       !.nNew = 1]]

Member == IF xtype = "node" THEN "next"
          ELSE IF xtype = "selfweak" THEN "self" ELSE "none"

\* The objects the client can reach: those a SharedPtr variable points to,
\* and those reached from them through next.
Held == {b \in B : \E s \in S : sp[s].live /\ sp[s].block = b
                                /\ sp[s].ptr = ObjPtr(b)}
RECURSIVE Closure(_)
Closure(X) ==
    LET n == X \cup {heap.b[o].mBlock :
                       o \in {x \in X : /\ heap.b[x].alive
                                        /\ heap.b[x].member = "next"
                                        /\ heap.b[x].mBlock # Null
                                        /\ heap.b[x].mPtr = ObjPtr(heap.b[x].mBlock)}}
    IN  IF n = X THEN X ELSE Closure(n)
Reach == Closure(Held)

\* The end of an operation.  A fault stops the program inside the operation.
Commit(h, nsp, nwp, o) ==
    /\ heap' = h
    /\ IF Faulted(h)
       THEN /\ sp' = sp /\ wp' = wp
            /\ last' = [o EXCEPT !.res = h.fault]
       ELSE /\ sp' = nsp /\ wp' = nwp
            /\ last' = o
    /\ UNCHANGED <<lib, xtype, up, raw>>

\* Storing v in the SharedPtr object k: in the variable, or in the member of
\* the object it belongs to.  Writing to a member of an object the operation
\* has destroyed goes through a dangling reference.
PutS(f, k, v) == IF k \in S THEN [f EXCEPT ![k] = v] ELSE f
StoreS(h, k, v) ==
    IF k \in S \/ Faulted(h) THEN h
    ELSE IF ~GetS(h, k).live THEN Fault(h, "danglingHandle")
    ELSE [h EXCEPT !.b[k - NumShared].mPtr = v.ptr,
                   !.b[k - NumShared].mBlock = v.block]
PutW(f, k, v) == IF k \in W THEN [f EXCEPT ![k] = v] ELSE f
StoreW(h, k, v) ==
    IF k \in W \/ Faulted(h) THEN h
    ELSE IF ~GetW(h, k).live THEN Fault(h, "danglingHandle")
    ELSE [h EXCEPT !.b[k - NumWeak].mPtr = v.ptr,
                   !.b[k - NumWeak].mBlock = v.block]

\* An operation that ends with heap h and has assigned v to the handle k
\* (and u to the handle j).
AssignS(h, k, v, o) == Commit(StoreS(h, k, v), PutS(sp, k, v), wp, o)
Assign2S(h, k, v, j, u, o) ==
    Commit(StoreS(StoreS(h, k, v), j, u), PutS(PutS(sp, k, v), j, u), wp, o)
AssignW(h, k, v, o) == Commit(StoreW(h, k, v), sp, PutW(wp, k, v), o)
Assign2W(h, k, v, j, u, o) ==
    Commit(StoreW(StoreW(h, k, v), j, u), sp, PutW(PutW(wp, k, v), j, u), o)

\* The handles the client applies operations to: its live variables, and the
\* member of every object it can reach, in the programs whose type X
\* declares one.
SharedVars ==
    {s \in S : sp[s].live}
    \cup (IF xtype = "node"
          THEN {MemberS(o) : o \in {x \in Reach : GetS(heap, MemberS(x)).live}}
          ELSE {})
WeakVars ==
    {w \in W : wp[w].live}
    \cup (IF xtype = "selfweak"
          THEN {MemberW(o) : o \in {x \in Reach : GetW(heap, MemberW(x)).live}}
          ELSE {})

\* The WeakPtr variables a program declares.
WVars == IF xtype = "node" THEN {}
         ELSE IF xtype \in {"selfweak", "copied", "counted"} THEN {1}
         ELSE W

UseSF == lib = "shared_from_this" /\ Running
UseShared == lib \in {"shared_from_this", "shared"} /\ Running

\* ---------------------------------------------------------------- SharedPtr
\* SharedPtr() and SharedPtr(nullptr_t)
SharedDefault(s) ==
    /\ UseShared /\ ~sp[s].live
    /\ AssignS(Begin, s, Handle(Null, Null), Op("SharedDefault", s, 0, "ok"))

\* explicit SharedPtr(X* ptr) and SharedPtr(Y* ptr): the new-expression of
\* the ControlBlockPointer is in the initialiser of block_.  If it throws, the
\* constructor is left and there is no SharedPtr; nothing deletes ptr.
SharedFromRaw(s) ==
    /\ UseShared /\ ~sp[s].live /\ FreeBlocks # {}
    /\ \E r \in AllocOutcomes :
       LET b == FreshBlock
           n == Counted([Begin EXCEPT !.b[b] = NewBlock(Embeds, Member, ObjPtr(b))],
                        b, "pointer")
           h == IF Wires THEN SetWeakThis(n, b, ObjPtr(b), b) ELSE n
       IN  IF r = "ok"
           THEN AssignS(h, s, Handle(ObjPtr(b), b), Op("SharedFromRaw", s, b, "ok"))
           ELSE Commit(Orphan(Begin, b), sp, wp, Op("SharedFromRaw", s, b, r))

\* Mutant of MakeShared: the object and its block are allocated apart.
MakeShared_TwoAllocations(s) ==
    /\ UseShared /\ ~sp[s].live /\ FreeBlocks # {}
    /\ \E r \in AllocOutcomes :
       LET b == FreshBlock
           n == [Counted([Begin EXCEPT !.b[b] = NewBlock(Wires, Member, ObjPtr(b))],
                         b, "pointer") EXCEPT !.b[b].kind = "holder"]
           h == IF Wires THEN SetWeakThis(n, b, ObjPtr(b), b) ELSE n
       IN  IF r = "ok"
           THEN AssignS(h, s, Handle(ObjPtr(b), b), Op("MakeShared", s, b, "ok"))
           ELSE Commit(Begin, sp, wp, Op("MakeShared", s, 0, r))

\* MakeShared: new ControlBlockHolder<X>, then SharedPtr(ControlBlockHolder<X>*).
\* The object is an X itself: it embeds the mixin only if X exposes it.  If
\* the new-expression throws, nothing has been built.
MakeShared(s) ==
    /\ UseShared /\ ~sp[s].live /\ FreeBlocks # {}
    /\ \E r \in AllocOutcomes :
       LET b == FreshBlock
           n == Counted([Begin EXCEPT !.b[b] = NewBlock(Wires, Member, ObjPtr(b))],
                        b, "holder")
           h == IF Wires THEN SetWeakThis(n, b, ObjPtr(b), b) ELSE n
       IN  IF r = "ok"
           THEN AssignS(h, s, Handle(ObjPtr(b), b), Op("MakeShared", s, b, "ok"))
           ELSE Commit(Begin, sp, wp, Op("MakeShared", s, 0, r))

\* Mutant of SharedCopy: the copy does not count itself.
SharedCopy_NoIncrement(s, t) ==
    /\ UseShared /\ ~sp[s].live /\ GetS(heap, t).live
    /\ AssignS(Begin, s, GetS(heap, t), Op("SharedCopy", s, t, "ok"))

\* SharedPtr(const SharedPtr&) and SharedPtr(const SharedPtr<Y>&)
SharedCopy(s, t) ==
    /\ UseShared /\ ~sp[s].live /\ GetS(heap, t).live
    /\ LET b == GetS(heap, t).block
           h == IF b # Null THEN IncreaseStrongCounter(Begin, b) ELSE Begin
       IN  AssignS(h, s, Handle(GetS(heap, t).ptr, b),
                   Op("SharedCopy", s, t, "ok"))

\* SharedPtr(SharedPtr&&) and SharedPtr(SharedPtr<Y>&&)
SharedMove(s, t) ==
    /\ UseShared /\ ~sp[s].live /\ GetS(heap, t).live
    /\ Assign2S(Begin, s, GetS(heap, t), t, Handle(Null, Null),
                Op("SharedMove", s, t, "ok"))

\* Mutant of SharedAlias: the aliasing handle does not count itself.
SharedAlias_NoIncrement(s, t, p) ==
    /\ UseShared /\ ~sp[s].live /\ GetS(heap, t).live
    /\ AssignS(Begin, s, Handle(p, GetS(heap, t).block),
               Op("SharedAlias", s, t, "ok"))

\* Aliasing constructor SharedPtr(const SharedPtr<T>& other, X* ptr).  In
\* src/shared-from-this the counter is increased if (block_); in src/shared
\* block_->IncreaseCounter() is called whatever block_ is.
SharedAlias(s, t, p) ==
    /\ UseShared /\ ~sp[s].live /\ GetS(heap, t).live
    /\ LET b == GetS(heap, t).block
           h == IF b # Null THEN IncreaseStrongCounter(Begin, b)
                ELSE IF lib = "shared" THEN Fault(Begin, "nullDeref")
                ELSE Begin
       IN  AssignS(h, s, Handle(p, b), Op("SharedAlias", s, t, "ok"))

\* Mutant of PromoteOutcomes: the strong count is increased before the test,
\* and the throw leaves it increased.
PromoteOutcomes_CountThenThrow(h, x) ==
    IF x.block = Null
    THEN {[h |-> Fault(h, "nullDeref"), res |-> "ok", made |-> FALSE],
          [h |-> h, res |-> "BadWeakPtr", made |-> FALSE]}
    ELSE LET a == Access(h, x.block) IN
         IF ~Faulted(a) /\ GetStrongCounter(a, x.block) = 0
         THEN {[h |-> IncreaseStrongCounter(a, x.block), res |-> "BadWeakPtr",
                made |-> FALSE]}
         ELSE {[h |-> IncreaseStrongCounter(a, x.block), res |-> "ok",
                made |-> TRUE]}

\* Mutant of PromoteOutcomes: a bound WeakPtr is promoted without a test of
\* the strong count.
PromoteOutcomes_NoCheck(h, x) ==
    IF x.block = Null
    THEN {[h |-> Fault(h, "nullDeref"), res |-> "ok", made |-> FALSE],
          [h |-> h, res |-> "BadWeakPtr", made |-> FALSE]}
    ELSE {[h |-> IncreaseStrongCounter(h, x.block), res |-> "ok", made |-> TRUE]}

\* Promotion, explicit SharedPtr(const WeakPtr<X>& other), as the set of its
\* outcomes for a WeakPtr x.  The test is
\* block_->GetStrongCounter() == 0 || !block_: the counter is read through
\* block_ before block_ is compared with nullptr.  With a null block_ that
\* read is undefined: the program faults on it, or the read yields zero and
\* BadWeakPtr is thrown.  A throw leaves no SharedPtr behind.
PromoteOutcomes(h, x) ==
    IF x.block = Null
    THEN {[h |-> Fault(h, "nullDeref"), res |-> "ok", made |-> FALSE],
          [h |-> h, res |-> "BadWeakPtr", made |-> FALSE]}
    ELSE LET a == Access(h, x.block) IN
         IF ~Faulted(a) /\ GetStrongCounter(a, x.block) = 0
         THEN {[h |-> a, res |-> "BadWeakPtr", made |-> FALSE]}
         ELSE {[h |-> IncreaseStrongCounter(a, x.block), res |-> "ok",
                made |-> TRUE]}

SharedPromote(s, w) ==
    /\ UseSF /\ ~sp[s].live /\ GetW(heap, w).live
    /\ \E r \in PromoteOutcomes(Begin, GetW(heap, w)) :
          LET o == Op("SharedPromote", s, w, r.res) IN
          IF r.made THEN AssignS(r.h, s, GetW(heap, w), o)
          ELSE Commit(r.h, sp, wp, o)

\* Mutant of SharedCopyAssign: no test for this == &other.
SharedCopyAssign_NoSelfCheck(s, t) ==
    /\ UseShared /\ GetS(heap, s).live /\ GetS(heap, t).live
    /\ LET d == Decrement(Begin, GetS(heap, s).block)
           r == ReadS(d, t)
           b == GetS(d, t).block
           h == IF ~Faulted(r) /\ b # Null THEN IncreaseStrongCounter(r, b) ELSE r
       IN  AssignS(h, s, Handle(GetS(d, t).ptr, b),
                   Op("SharedCopyAssign", s, t, "ok"))

\* SharedPtr& operator=(const SharedPtr& other): after the test for
\* this == &other, Decrement() runs first and other.ptr_ and other.block_
\* are read after it.
SharedCopyAssign(s, t) ==
    /\ UseShared /\ GetS(heap, s).live /\ GetS(heap, t).live
    /\ LET o == Op("SharedCopyAssign", s, t, "ok") IN
       IF s = t THEN Commit(Begin, sp, wp, o)
       ELSE LET d == Decrement(Begin, GetS(heap, s).block)
                r == ReadS(d, t)
                b == GetS(d, t).block
                h == IF ~Faulted(r) /\ b # Null THEN IncreaseStrongCounter(r, b)
                     ELSE r
            IN  AssignS(h, s, Handle(GetS(d, t).ptr, b), o)

\* SharedPtr& operator=(SharedPtr&& other): Decrement() first, then the
\* fields of other are read and nulled.
SharedMoveAssign(s, t) ==
    /\ UseShared /\ GetS(heap, s).live /\ GetS(heap, t).live
    /\ LET o == Op("SharedMoveAssign", s, t, "ok") IN
       IF s = t THEN Commit(Begin, sp, wp, o)
       ELSE LET d == Decrement(Begin, GetS(heap, s).block)
                r == ReadS(d, t)
            IN  Assign2S(r, s, Handle(GetS(d, t).ptr, GetS(d, t).block),
                         t, Handle(Null, Null), o)

\* ~SharedPtr() of a variable of the client
SharedDestroy(s) ==
    /\ UseShared /\ sp[s].live
    /\ AssignS(Decrement(Begin, sp[s].block), s, NoHandle,
               Op("SharedDestroy", s, 0, "ok"))

\* void Reset()
SharedReset(s) ==
    /\ UseShared /\ GetS(heap, s).live
    /\ AssignS(Decrement(Begin, GetS(heap, s).block), s, Handle(Null, Null),
               Op("SharedReset", s, 0, "ok"))

\* void Reset(X* ptr) and Reset(Y* ptr): Decrement(), ptr_ = ptr, then a new
\* ControlBlockPointer, and no SetWeakThis, whatever the type of the object.
\* If the new-expression throws, ptr_ has been assigned and block_ has not.
SharedResetPtr(s) ==
    /\ UseShared /\ GetS(heap, s).live /\ FreeBlocks # {}
    /\ \E r \in AllocOutcomes :
       LET b == FreshBlock
           d == Decrement(Begin, GetS(heap, s).block)
           h == IF Faulted(d) THEN d
                ELSE Counted([d EXCEPT !.b[b] = NewBlock(Embeds, Member, ObjPtr(b))],
                             b, "pointer")
       IN  IF r = "ok"
           THEN AssignS(h, s, Handle(ObjPtr(b), b), Op("SharedResetPtr", s, b, "ok"))
           ELSE AssignS(IF Faulted(d) THEN d ELSE Orphan(d, b), s,
                        Handle(ObjPtr(b), GetS(heap, s).block),
                        Op("SharedResetPtr", s, b, r))

\* void Swap(SharedPtr& other)
SharedSwap(s, t) ==
    /\ UseShared /\ GetS(heap, s).live /\ GetS(heap, t).live
    /\ Assign2S(Begin, s, GetS(heap, t), t, GetS(heap, s),
                Op("SharedSwap", s, t, "ok"))

\* ---------------------------------------------------------------- WeakPtr
\* WeakPtr()
WeakDefault(w) ==
    /\ UseSF /\ w \in WVars /\ ~wp[w].live
    /\ AssignW(Begin, w, Handle(Null, Null), Op("WeakDefault", w, 0, "ok"))

\* WeakPtr(const WeakPtr&) and WeakPtr(const WeakPtr<Y>&)
WeakCopy(w, v) ==
    /\ UseSF /\ w \in WVars /\ ~wp[w].live /\ GetW(heap, v).live
    /\ LET b == GetW(heap, v).block
           h == IF b # Null THEN IncreaseWeakCounter(Begin, b) ELSE Begin
       IN  AssignW(h, w, Handle(GetW(heap, v).ptr, b), Op("WeakCopy", w, v, "ok"))

\* WeakPtr(WeakPtr&&)
WeakMove(w, v) ==
    /\ UseSF /\ w \in WVars /\ ~wp[w].live /\ GetW(heap, v).live
    /\ Assign2W(Begin, w, GetW(heap, v), v, Handle(Null, Null),
                Op("WeakMove", w, v, "ok"))

\* Mutant of WeakFromShared: the new WeakPtr registers as an owner.
WeakFromShared_CountsStrong(w, s) ==
    /\ UseSF /\ w \in WVars /\ ~wp[w].live /\ GetS(heap, s).live
    /\ LET b == GetS(heap, s).block
           h == IF b # Null THEN IncreaseStrongCounter(Begin, b) ELSE Begin
       IN  AssignW(h, w, Handle(GetS(heap, s).ptr, b),
                   Op("WeakFromShared", w, s, "ok"))

\* WeakPtr(const SharedPtr<X>&)
WeakFromShared(w, s) ==
    /\ UseSF /\ w \in WVars /\ ~wp[w].live /\ GetS(heap, s).live
    /\ LET b == GetS(heap, s).block
           h == IF b # Null THEN IncreaseWeakCounter(Begin, b) ELSE Begin
       IN  AssignW(h, w, Handle(GetS(heap, s).ptr, b),
                   Op("WeakFromShared", w, s, "ok"))

\* WeakPtr& operator=(const WeakPtr& other)
WeakCopyAssign(w, v) ==
    /\ UseSF /\ GetW(heap, w).live /\ GetW(heap, v).live
    /\ LET o == Op("WeakCopyAssign", w, v, "ok") IN
       IF w = v THEN Commit(Begin, sp, wp, o)
       ELSE LET d == WeakDecrement(Begin, GetW(heap, w).block)
                r == ReadW(d, v)
                b == GetW(d, v).block
                h == IF ~Faulted(r) /\ b # Null THEN IncreaseWeakCounter(r, b)
                     ELSE r
            IN  AssignW(h, w, Handle(GetW(d, v).ptr, b), o)

\* WeakPtr& operator=(WeakPtr&& other)
WeakMoveAssign(w, v) ==
    /\ UseSF /\ GetW(heap, w).live /\ GetW(heap, v).live
    /\ LET o == Op("WeakMoveAssign", w, v, "ok") IN
       IF w = v THEN Commit(Begin, sp, wp, o)
       ELSE LET d == WeakDecrement(Begin, GetW(heap, w).block)
                r == ReadW(d, v)
            IN  Assign2W(r, w, Handle(GetW(d, v).ptr, GetW(d, v).block),
                         v, Handle(Null, Null), o)

\* ~WeakPtr() of a variable of the client
WeakDestroy(w) ==
    /\ UseSF /\ wp[w].live
    /\ AssignW(WeakDecrement(Begin, wp[w].block), w, NoHandle,
               Op("WeakDestroy", w, 0, "ok"))

\* void Reset()
WeakReset(w) ==
    /\ UseSF /\ GetW(heap, w).live
    /\ AssignW(WeakDecrement(Begin, GetW(heap, w).block), w, Handle(Null, Null),
               Op("WeakReset", w, 0, "ok"))

\* void Swap(WeakPtr& other)
WeakSwap(w, v) ==
    /\ UseSF /\ GetW(heap, w).live /\ GetW(heap, v).live
    /\ Assign2W(Begin, w, GetW(heap, v), v, GetW(heap, w),
                Op("WeakSwap", w, v, "ok"))

\* size_t UseCount() const, of WeakPtr and of SharedPtr (the same code)
UseCount(x) == IF x.block # Null THEN GetStrongCounter(heap, x.block) ELSE 0

\* bool Expired() const
Expired(x) == UseCount(x) = 0

\* Mutant of WeakLock: only block_ is tested before the promotion.
WeakLock_NoExpiredCheck(w, s) ==
    /\ UseSF /\ GetW(heap, w).live /\ ~sp[s].live
    /\ LET b == GetW(heap, w).block
           o == Op("WeakLock", s, w, "ok")
       IN  IF b # Null
           THEN \E r \in PromoteOutcomes(Begin, GetW(heap, w)) :
                   IF r.made
                   THEN AssignS(r.h, s, GetW(heap, w), [o EXCEPT !.res = r.res])
                   ELSE Commit(r.h, sp, wp, [o EXCEPT !.res = r.res])
           ELSE AssignS(Begin, s, Handle(Null, Null), [o EXCEPT !.res = "empty"])

\* SharedPtr<X> Lock() const: nullptr for a null block_ and for a strong
\* counter of zero, otherwise SharedPtr<X>(*this), the promotion.
WeakLock(w, s) ==
    /\ UseSF /\ GetW(heap, w).live /\ ~sp[s].live
    /\ LET b == GetW(heap, w).block
           o == Op("WeakLock", s, w, "ok")
           e == Handle(Null, Null)
       IN  IF b # Null
           THEN LET a == Access(Begin, b) IN
                IF Faulted(a) \/ GetStrongCounter(a, b) = 0
                THEN AssignS(a, s, e, [o EXCEPT !.res = "empty"])
                ELSE \E r \in PromoteOutcomes(a, GetW(heap, w)) :
                        IF r.made
                        THEN AssignS(r.h, s, GetW(heap, w),
                                     [o EXCEPT !.res = r.res])
                        ELSE Commit(r.h, sp, wp, [o EXCEPT !.res = r.res])
           ELSE AssignS(Begin, s, e, [o EXCEPT !.res = "empty"])

\* Mutant of SharedFromThis: the handle returned does not count itself.
SharedFromThis_NoIncrement(s, t) ==
    /\ UseSF /\ Wires /\ ~sp[s].live /\ GetS(heap, t).live
    /\ GetS(heap, t).block # Null
    /\ GetS(heap, t).ptr = ObjPtr(GetS(heap, t).block)
    /\ LET x == heap.b[GetS(heap, t).block]
           o == Op("SharedFromThis", s, t, "ok")
       IN  IF x.wtBlock # Null /\ heap.b[x.wtBlock].strong # 0
           THEN AssignS(Begin, s, Handle(x.wtPtr, x.wtBlock), o)
           ELSE AssignS(Begin, s, Handle(Null, Null), [o EXCEPT !.res = "empty"])

\* SharedPtr<X> EnableSharedFromThis::SharedFromThis(), called through the
\* SharedPtr t that points to the object: return weak_this_.Lock().
SharedFromThis(s, t) ==
    /\ UseSF /\ Wires /\ ~sp[s].live /\ GetS(heap, t).live
    /\ GetS(heap, t).block # Null
    /\ GetS(heap, t).ptr = ObjPtr(GetS(heap, t).block)
    /\ LET x == heap.b[GetS(heap, t).block]
           k == Lock(Begin, x.wtPtr, x.wtBlock)
           o == Op("SharedFromThis", s, t, "ok")
       IN  IF k.made THEN AssignS(k.h, s, Handle(x.wtPtr, x.wtBlock), o)
           ELSE AssignS(k.h, s, Handle(Null, Null), [o EXCEPT !.res = "empty"])

\* X c(*p): the copy constructor of X, implicitly defined, copies the base
\* EnableSharedFromThis<X>, whose copy constructor, implicitly defined as
\* well, copies weak_this_ with WeakPtr(const WeakPtr&): the copy registers
\* with the block of the original.
MixinCopy(t) ==
    /\ UseSF /\ xtype = "copied" /\ ~heap.cp.live /\ GetS(heap, t).live
    /\ GetS(heap, t).block # Null
    /\ GetS(heap, t).ptr = ObjPtr(GetS(heap, t).block)
    /\ LET x == heap.b[GetS(heap, t).block]
           h == IF x.wtBlock # Null THEN IncreaseWeakCounter(Begin, x.wtBlock)
                ELSE Begin
       IN  Commit([h EXCEPT !.cp = [live |-> TRUE, wtPtr |-> x.wtPtr,
                                    wtBlock |-> x.wtBlock]],
                  sp, wp, Op("MixinCopy", 0, t, "ok"))

\* The copy goes out of scope: ~EnableSharedFromThis() decreases the weak
\* counter through weak_this_ and nulls its fields, and the ~WeakPtr of
\* weak_this_ that follows finds a null block_.  No Decrement() runs, and
\* nothing compares the counters with zero.
MixinCopyDestroy ==
    /\ UseSF /\ xtype = "copied" /\ heap.cp.live
    /\ LET h == IF heap.cp.wtBlock = Null THEN Fault(Begin, "nullDeref")
                ELSE DecreaseWeakCounter(Begin, heap.cp.wtBlock)
       IN  Commit(IF Faulted(h) THEN h ELSE [h EXCEPT !.cp = NoCopy],
                  sp, wp, Op("MixinCopyDestroy", 0, 0, "ok"))

\* ---------------------------------------------------------------- UniquePtr
\* The objects handed to UniquePtr, the pointers the destruction policy was
\* called with in the current operation, and the fault of the run.
NoRaw == [state |-> "none", nPolicy |-> 0]
EmptyRaw == [o |-> [r \in R |-> NoRaw], calls |-> <<>>, fault |-> "none"]

\* CustomDeleter::operator()(T* p): delete p.  delete nullptr does nothing.
Policy(m, p) ==
    IF m.fault # "none" THEN m
    ELSE LET c == [m EXCEPT !.calls = Append(@, p)] IN
         IF p = Null THEN c
         ELSE IF c.o[p].state # "owned" THEN [c EXCEPT !.fault = "doubleDelete"]
         ELSE [c EXCEPT !.o[p].state = "deleted", !.o[p].nPolicy = @ + 1]

UseU == lib = "unique" /\ raw.fault = "none"
BeginU == [raw EXCEPT !.calls = <<>>]
FreeRaw == {r \in R : raw.o[r].state = "none"}
FreshRaw == CHOOSE r \in FreeRaw : \A q \in FreeRaw : r <= q

CommitU(m, nup, o) ==
    /\ raw' = m
    /\ IF m.fault # "none"
       THEN up' = up /\ last' = [o EXCEPT !.res = m.fault]
       ELSE up' = nup /\ last' = o
    /\ UNCHANGED <<lib, xtype, sp, wp, heap>>

UHandle(p) == [live |-> TRUE, ptr |-> p]
NoUHandle == [live |-> FALSE, ptr |-> Null]

\* The pointer argument of a constructor or of Reset: nullptr, or an object
\* that no UniquePtr has been given before.
Adopt(m, fresh) ==
    IF fresh THEN [m EXCEPT !.o[FreshRaw].state = "owned"] ELSE m
AdoptPtr(fresh) == IF fresh THEN FreshRaw ELSE Null

\* explicit UniquePtr(T* ptr = nullptr)
UniqueFromRaw(u, fresh) ==
    /\ UseU /\ ~up[u].live /\ (fresh => FreeRaw # {})
    /\ CommitU(Adopt(BeginU, fresh), [up EXCEPT ![u] = UHandle(AdoptPtr(fresh))],
               Op("UniqueFromRaw", u, AdoptPtr(fresh), "ok"))

\* Mutant of UniqueMove: the source keeps its pointer.
UniqueMove_KeepsSource(u, v) ==
    /\ UseU /\ ~up[u].live /\ up[v].live
    /\ CommitU(BeginU, [up EXCEPT ![u] = UHandle(up[v].ptr)],
               Op("UniqueMove", u, v, "ok"))

\* UniquePtr(UniquePtr&& other): pair_ is default-constructed (first_ = F(),
\* a null pointer) and swapped with other.pair_.  The converting
\* UniquePtr(UniquePtr<U, E>&&) takes pointer.Release(): the same effect.
UniqueMove(u, v) ==
    /\ UseU /\ ~up[u].live /\ up[v].live
    /\ CommitU(BeginU, [up EXCEPT ![u] = UHandle(up[v].ptr), ![v] = UHandle(Null)],
               Op("UniqueMove", u, v, "ok"))

\* UniquePtr& operator=(UniquePtr&& other): the policy is called on the
\* current pointer without a null test.
UniqueMoveAssign(u, v) ==
    /\ UseU /\ up[u].live /\ up[v].live
    /\ LET o == Op("UniqueMoveAssign", u, v, "ok") IN
       IF u = v THEN CommitU(BeginU, up, o)
       ELSE CommitU(Policy(BeginU, up[u].ptr),
                    [up EXCEPT ![u] = UHandle(up[v].ptr), ![v] = UHandle(Null)], o)

\* UniquePtr& operator=(std::nullptr_t)
UniqueAssignNull(u) ==
    /\ UseU /\ up[u].live
    /\ CommitU(Policy(BeginU, up[u].ptr), [up EXCEPT ![u] = UHandle(Null)],
               Op("UniqueAssignNull", u, 0, "ok"))

\* Mutant of UniqueDestroy: the policy is not called.
UniqueDestroy_NoPolicy(u) ==
    /\ UseU /\ up[u].live
    /\ CommitU(BeginU, [up EXCEPT ![u] = NoUHandle], Op("UniqueDestroy", u, 0, "ok"))

\* ~UniquePtr(): the policy is called only on a non-null pointer.
UniqueDestroy(u) ==
    /\ UseU /\ up[u].live
    /\ CommitU(IF up[u].ptr # Null THEN Policy(BeginU, up[u].ptr) ELSE BeginU,
               [up EXCEPT ![u] = NoUHandle], Op("UniqueDestroy", u, 0, "ok"))

\* T* Release(): the pointer goes back to the caller.
UniqueRelease(u) ==
    /\ UseU /\ up[u].live
    /\ LET p == up[u].ptr
           m == IF p # Null THEN [BeginU EXCEPT !.o[p].state = "released"]
                ELSE BeginU
       IN  CommitU(m, [up EXCEPT ![u] = UHandle(Null)],
                   Op("UniqueRelease", u, p, "ok"))

\* void Reset(T* ptr = nullptr): old_ptr is saved, ptr stored, and the policy
\* called on old_ptr without a null test.
UniqueReset(u, fresh) ==
    /\ UseU /\ up[u].live /\ (fresh => FreeRaw # {})
    /\ CommitU(Policy(Adopt(BeginU, fresh), up[u].ptr),
               [up EXCEPT ![u] = UHandle(AdoptPtr(fresh))],
               Op("UniqueReset", u, AdoptPtr(fresh), "ok"))

\* void Swap(UniquePtr& other)
UniqueSwap(u, v) ==
    /\ UseU /\ up[u].live /\ up[v].live
    /\ CommitU(BeginU, [up EXCEPT ![u] = up[v], ![v] = up[u]],
               Op("UniqueSwap", u, v, "ok"))

\* ---------------------------------------------------------------- program
Init ==
    /\ lib \in {"shared_from_this", "shared", "unique"}
    /\ xtype \in IF lib = "shared_from_this" THEN XTypes
                 ELSE IF lib = "shared" THEN {"plain", "node"}
                 ELSE {"plain"}
    /\ sp = [s \in S |-> NoHandle]
    /\ wp = [w \in W |-> NoHandle]
    /\ heap = EmptyHeap
    /\ up = [u \in U |-> NoUHandle]
    /\ raw = EmptyRaw
    /\ last = Op("Init", 0, 0, "ok")

Next ==
    \/ \E s \in S : SharedDefault(s)
    \/ \E s \in S : SharedFromRaw(s)
    \/ \E s \in S : MakeShared(s)
    \/ \E s \in S, t \in SharedVars : SharedCopy(s, t)
    \/ \E s \in S, t \in SharedVars : SharedMove(s, t)
    \/ \E s \in S, t \in SharedVars : SharedAlias(s, t, SubPtr(GetS(heap, t).block))
    \/ \E s \in S, w \in WeakVars : SharedPromote(s, w)
    \/ \E s, t \in SharedVars : SharedCopyAssign(s, t)
    \/ \E s, t \in SharedVars : SharedMoveAssign(s, t)
    \/ \E s \in S : SharedDestroy(s)
    \/ \E s \in SharedVars : SharedReset(s)
    \/ \E s \in SharedVars : SharedResetPtr(s)
    \/ \E s, t \in SharedVars : SharedSwap(s, t)
    \/ \E w \in W : WeakDefault(w)
    \/ \E w \in W, v \in WeakVars : WeakCopy(w, v)
    \/ \E w \in W, v \in WeakVars : WeakMove(w, v)
    \/ \E w \in W, s \in SharedVars : WeakFromShared(w, s)
    \/ \E w, v \in WeakVars : WeakCopyAssign(w, v)
    \/ \E w, v \in WeakVars : WeakMoveAssign(w, v)
    \/ \E w \in W : WeakDestroy(w)
    \/ \E w \in WeakVars : WeakReset(w)
    \/ \E w, v \in WeakVars : WeakSwap(w, v)
    \/ \E w \in WeakVars, s \in S : WeakLock(w, s)
    \/ \E s \in S, t \in SharedVars : SharedFromThis(s, t)
    \/ \E u \in U, fresh \in BOOLEAN : UniqueFromRaw(u, fresh)
    \/ \E u, v \in U : UniqueMove(u, v)
    \/ \E u, v \in U : UniqueMoveAssign(u, v)
    \/ \E u \in U : UniqueAssignNull(u)
    \/ \E u \in U : UniqueDestroy(u)
    \/ \E u \in U : UniqueRelease(u)
    \/ \E u \in U, fresh \in BOOLEAN : UniqueReset(u, fresh)
    \/ \E u, v \in U : UniqueSwap(u, v)

Spec == Init /\ [][Next]_vars

\* The programs that copy objects of a mixin type.
InitCopy ==
    /\ lib = "shared_from_this"
    /\ xtype = "copied"
    /\ sp = [s \in S |-> NoHandle]
    /\ wp = [w \in W |-> NoHandle]
    /\ heap = EmptyHeap
    /\ up = [u \in U |-> NoUHandle]
    /\ raw = EmptyRaw
    /\ last = Op("Init", 0, 0, "ok")

NextCopy ==
    \/ \E s \in S : SharedDefault(s)
    \/ \E s \in S : SharedFromRaw(s)
    \/ \E s \in S : MakeShared(s)
    \/ \E s \in S, t \in SharedVars : SharedCopy(s, t)
    \/ \E s \in S, t \in SharedVars : SharedMove(s, t)
    \/ \E s \in S, w \in WeakVars : SharedPromote(s, w)
    \/ \E s, t \in SharedVars : SharedCopyAssign(s, t)
    \/ \E s, t \in SharedVars : SharedMoveAssign(s, t)
    \/ \E s \in S : SharedDestroy(s)
    \/ \E s \in SharedVars : SharedReset(s)
    \/ \E s \in SharedVars : SharedResetPtr(s)
    \/ \E w \in W : WeakDefault(w)
    \/ \E w \in W, s \in SharedVars : WeakFromShared(w, s)
    \/ \E w \in W : WeakDestroy(w)
    \/ \E w \in WeakVars : WeakReset(w)
    \/ \E w \in WeakVars, s \in S : WeakLock(w, s)
    \/ \E s \in S, t \in SharedVars : SharedFromThis(s, t)
    \/ \E t \in SharedVars : MixinCopy(t)
    \/ MixinCopyDestroy

SpecCopy == InitCopy /\ [][NextCopy]_vars

\* The programs that count their allocations and in which an allocation
\* may fail.
InitAlloc ==
    /\ lib = "shared_from_this"
    /\ xtype = "counted"
    /\ sp = [s \in S |-> NoHandle]
    /\ wp = [w \in W |-> NoHandle]
    /\ heap = EmptyHeap
    /\ up = [u \in U |-> NoUHandle]
    /\ raw = EmptyRaw
    /\ last = Op("Init", 0, 0, "ok")

NextAlloc ==
    \/ \E s \in S : SharedDefault(s)
    \/ \E s \in S : SharedFromRaw(s)
    \/ \E s \in S : MakeShared(s)
    \/ \E s \in S, t \in SharedVars : SharedCopy(s, t)
    \/ \E s \in S, t \in SharedVars : SharedMove(s, t)
    \/ \E s, t \in SharedVars : SharedCopyAssign(s, t)
    \/ \E s, t \in SharedVars : SharedMoveAssign(s, t)
    \/ \E s \in S : SharedDestroy(s)
    \/ \E s \in SharedVars : SharedReset(s)
    \/ \E s \in SharedVars : SharedResetPtr(s)
    \/ \E w \in W : WeakDefault(w)
    \/ \E w \in W, s \in SharedVars : WeakFromShared(w, s)
    \/ \E w \in W : WeakDestroy(w)
    \/ \E w \in WeakVars : WeakReset(w)
    \/ \E w \in WeakVars, s \in S : WeakLock(w, s)

SpecAlloc == InitAlloc /\ [][NextAlloc]_vars

\* ---------------------------------------------------------------- properties
Allocated(b) == heap.b[b].state # "none"
Live(b) == heap.b[b].state = "live"
Freed(b) == heap.b[b].state = "freed"

\* The live SharedPtr objects bound to block b (variables and members), the
\* live WeakPtr objects bound to it, the managed objects whose weak_this_ is
\* bound to it, and the copy whose weak_this_ is bound to it.
StrongHolders(b) == {k \in SS : GetS(heap, k).live /\ GetS(heap, k).block = b}
WeakHolders(b) == {k \in WS : GetW(heap, k).live /\ GetW(heap, k).block = b}
MixinHolders(b) == {o \in B : heap.b[o].alive /\ heap.b[o].wtBlock = b}
CopyHolders(b) == IF heap.cp.live /\ heap.cp.wtBlock = b THEN {0} ELSE {}

ReleaseOps == {"SharedDestroy", "SharedReset", "SharedResetPtr",
               "SharedCopyAssign", "SharedMoveAssign"}

\* C1.  The managed object of every control block is destroyed (DeleteObject
\* is invoked) at most once, it has been destroyed exactly when the strong
\* count of its block is zero, and the step that destroys it is the step that
\* takes the strong count from 1 to 0.
C1_DestroyedOnce ==
    /\ [](/\ heap.fault # "doubleDelete"
          /\ \A b \in B : Allocated(b) =>
                heap.b[b].nDeleteObject = IF heap.b[b].strong = 0 THEN 1 ELSE 0)
    /\ [][\A b \in B :
            heap'.b[b].nDeleteObject # heap.b[b].nDeleteObject =>
                /\ heap'.b[b].nDeleteObject = heap.b[b].nDeleteObject + 1
                /\ heap.b[b].strong = 1
                /\ heap'.b[b].strong = 0]_vars

\* C1 witness: an object destroyed by the release of its last SharedPtr after
\* the block had been shared by two handles and observed by a WeakPtr.
C1_Witness ==
    /\ last.op \in ReleaseOps
    /\ \E b \in B : /\ heap.b[b].nDeleteObject = 1
                    /\ Live(b)
                    /\ heap.b[b].strong = 0
                    /\ WeakHolders(b) # {}
    /\ \E b \in B : Live(b) /\ heap.b[b].strong = 2

\* C2 (the claim as stated).  With src/shared-from-this every control block
\* is freed (delete block_) at most once, only with both of its counters at
\* zero, and no operation reads or writes a block that has been freed.
C2_FreedOnce ==
    lib = "shared_from_this" =>
    /\ heap.fault \notin {"doubleFree", "useAfterFree"}
    /\ \A b \in B :
          /\ heap.b[b].nFree <= 1
          /\ Live(b) => heap.b[b].nFree = 0
          /\ Freed(b) => /\ heap.b[b].nFree = 1
                         /\ heap.b[b].strong = 0
                         /\ heap.b[b].weak = 0
                         /\ ~Faulted(heap) => /\ StrongHolders(b) = {}
                                               /\ WeakHolders(b) = {}

\* C3.  Between operations the strong count of every block that has not been
\* freed is the number of live SharedPtr handles bound to it, and its weak
\* count the number of live WeakPtr handles bound to it, weak_this_ of a
\* living mixin object included; no count is negative.
C3_Counts ==
    /\ \A b \in B : heap.b[b].strong >= 0 /\ heap.b[b].weak >= 0
    /\ Running =>
          \A b \in B : Live(b) =>
             /\ heap.b[b].strong = Cardinality(StrongHolders(b))
             /\ heap.b[b].weak = Cardinality(WeakHolders(b))
                                 + Cardinality(MixinHolders(b))
             /\ \A s \in StrongHolders(b) :
                   UseCount(GetS(heap, s)) = heap.b[b].strong

\* C3 witness: MakeShared of a mixin object (count 1), one copy (count 2),
\* and a WeakPtr beside weak_this_ (weak count 2).
C3_Witness ==
    \E b \in B : /\ Live(b)
                 /\ heap.b[b].strong = 2
                 /\ Cardinality(StrongHolders(b)) = 2
                 /\ heap.b[b].weak = 2
                 /\ MixinHolders(b) = {b}
                 /\ Cardinality(WeakHolders(b)) = 1

\* C4.  Lock() on a WeakPtr that is unbound, or whose block has a strong
\* count of zero, returns an empty SharedPtr (null pointer, null block,
\* UseCount 0) and changes nothing; otherwise it returns a SharedPtr with the
\* pointer and block of the WeakPtr, the strong count grows by exactly one, and
\* the managed object is alive.
C4_Lock ==
    [][last'.op = "WeakLock" =>
        LET s == last'.a
            x == GetW(heap, last'.b)
            b == x.block
        IN  IF b = Null \/ heap.b[b].strong = 0
            THEN /\ last'.res = "empty"
                 /\ sp'[s] = Handle(Null, Null)
                 /\ UseCount(sp'[s]) = 0
                 /\ heap' = heap
            ELSE /\ last'.res = "ok"
                 /\ sp'[s] = Handle(x.ptr, b)
                 /\ heap'.b[b].strong = heap.b[b].strong + 1
                 /\ heap'.b[b].weak = heap.b[b].weak
                 /\ heap'.b[b].alive
                 /\ heap'.b[b].nDeleteObject = 0]_vars

\* C4 witness: Lock() has returned empty for a WeakPtr that is still bound to
\* a block whose object has been destroyed.
C4_Witness ==
    /\ last.op = "WeakLock" /\ last.res = "empty"
    /\ GetW(heap, last.b).block # Null
    /\ heap.b[GetW(heap, last.b).block].nDeleteObject = 1
    /\ sp[last.a] = Handle(Null, Null)

\* C5.  A WeakPtr that outlives the object keeps the block allocated: while a
\* live WeakPtr is bound to a block whose strong count is zero, the block is
\* not freed, its object has been destroyed, and the WeakPtr reports
\* Expired() and UseCount() 0.  The step that takes the strong count to zero
\* and leaves a WeakPtr bound destroys the object and leaves the block
\* allocated; Lock() on such a WeakPtr is empty; the step that releases the
\* last such WeakPtr frees the block.
C5_WeakOutlives ==
    /\ [](Running =>
            \A w \in WS : GetW(heap, w).live /\ GetW(heap, w).block # Null =>
                /\ Live(GetW(heap, w).block)
                /\ heap.b[GetW(heap, w).block].strong = 0 =>
                      /\ heap.b[GetW(heap, w).block].nDeleteObject = 1
                      /\ ~heap.b[GetW(heap, w).block].alive
                      /\ Expired(GetW(heap, w))
                      /\ UseCount(GetW(heap, w)) = 0)
    /\ [][\A b \in B :
            /\ (/\ Live(b) /\ heap.b[b].strong > 0 /\ heap'.b[b].strong = 0
                /\ WeakHolders(b)' # {})
                  => /\ heap'.b[b].nDeleteObject = 1
                     /\ heap'.b[b].state = "live"
            /\ (/\ Live(b) /\ heap.b[b].strong = 0
                /\ last'.op = "WeakLock" /\ GetW(heap, last'.b).block = b)
                  => /\ last'.res = "empty"
                     /\ sp'[last'.a] = Handle(Null, Null)
            /\ (/\ Live(b) /\ heap.b[b].strong = 0
                /\ WeakHolders(b) # {} /\ WeakHolders(b)' = {})
                  => /\ heap'.b[b].state = "freed"
                     /\ heap'.b[b].nFree = 1]_vars

\* C5 witness: the last WeakPtr of a block whose object was destroyed earlier
\* has just been released, and the block is freed.
C5_Witness ==
    /\ last.op \in {"WeakDestroy", "WeakReset"}
    /\ \E b \in B : /\ Freed(b) /\ heap.b[b].freedBy = "weak"
                    /\ heap.b[b].nDeleteObject = 1
    /\ \E b \in B : /\ Live(b) /\ heap.b[b].strong = 0 /\ WeakHolders(b) # {}
                    /\ \A w \in WeakHolders(b) : Expired(GetW(heap, w))

\* C6.  The promoting constructor applied to a WeakPtr bound to a block:
\* with a strong count of zero it throws BadWeakPtr and no handle comes to
\* exist; with a strong count above zero it yields a handle with the pointer
\* and block of the WeakPtr and the strong count grows by exactly one.
C6_Promote ==
    [][last'.op = "SharedPromote" /\ GetW(heap, last'.b).block # Null =>
        LET s == last'.a
            x == GetW(heap, last'.b)
            b == x.block
        IN  IF heap.b[b].strong = 0
            THEN /\ last'.res = "BadWeakPtr"
                 /\ ~sp'[s].live
                 /\ heap' = heap
            ELSE /\ last'.res = "ok"
                 /\ sp'[s] = Handle(x.ptr, b)
                 /\ heap'.b[b].strong = heap.b[b].strong + 1
                 /\ heap'.b[b].weak = heap.b[b].weak]_vars

\* C6 witness: a promotion has thrown BadWeakPtr on a bound, expired WeakPtr.
C6_Witness ==
    /\ last.op = "SharedPromote" /\ last.res = "BadWeakPtr"
    /\ GetW(heap, last.b).block # Null
    /\ heap.b[GetW(heap, last.b).block].strong = 0

\* C7 (the claim as stated).  The promoting constructor throws BadWeakPtr for
\* every WeakPtr for which Expired() is true, the unbound ones included, and
\* never dereferences a null block pointer.
C7_PromoteExpiredThrows ==
    [][last'.op = "SharedPromote" /\ Expired(GetW(heap, last'.b)) =>
          /\ last'.res = "BadWeakPtr"
          /\ heap'.fault # "nullDeref"]_vars

\* C8.  Copy- or move-assigning a SharedPtr or a WeakPtr to itself, and
\* move-assigning a UniquePtr to itself, changes no handle, no counter and no
\* object, and calls no destruction policy.
C8_SelfAssign ==
    [][/\ last'.op \in {"SharedCopyAssign", "SharedMoveAssign", "WeakCopyAssign",
                        "WeakMoveAssign", "UniqueMoveAssign"}
       /\ last'.a = last'.b
       => /\ last'.res = "ok"
          /\ sp' = sp /\ wp' = wp /\ heap' = heap
          /\ up' = up /\ raw'.o = raw.o /\ raw'.calls = <<>>]_vars

\* C8 witness: a SharedPtr that is the only owner of a living object has
\* been copy-assigned to itself.
C8_Witness ==
    /\ last.op = "SharedCopyAssign" /\ last.a = last.b
    /\ GetS(heap, last.a).block # Null
    /\ heap.b[GetS(heap, last.a).block].strong = 1
    /\ heap.b[GetS(heap, last.a).block].alive

\* What a move must leave alone in block x: its state, its object, and its
\* counters but for the handles that came or went.
Kept(x) ==
    /\ heap'.b[x].state = heap.b[x].state
    /\ heap'.b[x].nDeleteObject = heap.b[x].nDeleteObject
    /\ heap'.b[x].strong - Cardinality(StrongHolders(x)')
          = heap.b[x].strong - Cardinality(StrongHolders(x))
    /\ heap'.b[x].weak - Cardinality(WeakHolders(x)')
          = heap.b[x].weak - Cardinality(WeakHolders(x))

\* C9 (the claim as stated).  With src/shared-from-this: move construction
\* leaves every counter as it was, gives the target the pointer and block of
\* the source, and leaves the source null.  Move assignment does the same to
\* the block it moves (that block is neither counted up or down for the move
\* nor destroyed nor freed)
\* and gives up the previous binding of the target exactly once.  Destroying
\* a handle with a null block changes nothing.
C9_Move ==
    [][\A a \in SS \cup WS, b \in SS \cup WS :
       (lib = "shared_from_this" /\ last'.a = a /\ last'.b = b) =>
       /\ last'.op = "SharedMove" =>
            /\ \A x \in B : /\ heap'.b[x].strong = heap.b[x].strong
                            /\ heap'.b[x].weak = heap.b[x].weak
                            /\ Kept(x)
            /\ GetS(heap, a)' = GetS(heap, b)
            /\ GetS(heap, b)' = Handle(Null, Null)
       /\ last'.op = "WeakMove" =>
            /\ \A x \in B : /\ heap'.b[x].strong = heap.b[x].strong
                            /\ heap'.b[x].weak = heap.b[x].weak
                            /\ Kept(x)
            /\ GetW(heap, a)' = GetW(heap, b)
            /\ GetW(heap, b)' = Handle(Null, Null)
       /\ (last'.op = "SharedMoveAssign" /\ a # b) =>
            LET old == GetS(heap, a).block
                new == GetS(heap, b).block
            IN  /\ \A x \in B : x = new /\ x # old => Kept(x)
                /\ last'.res = "ok" =>
                      /\ GetS(heap, a)' = GetS(heap, b)
                      /\ GetS(heap, b)' = Handle(Null, Null)
                      /\ old # Null =>
                            heap'.b[old].strong = heap.b[old].strong - 1
       /\ (last'.op = "WeakMoveAssign" /\ a # b) =>
            LET old == GetW(heap, a).block
                new == GetW(heap, b).block
            IN  /\ \A x \in B : x = new /\ x # old => Kept(x)
                /\ last'.res = "ok" =>
                      /\ GetW(heap, a)' = GetW(heap, b)
                      /\ GetW(heap, b)' = Handle(Null, Null)
                      /\ old # Null =>
                            heap'.b[old].weak = heap.b[old].weak - 1
       /\ (last'.op = "SharedDestroy" /\ GetS(heap, a).block = Null) =>
            heap' = heap
       /\ (last'.op = "WeakDestroy" /\ GetW(heap, a).block = Null) =>
            heap' = heap]_vars

\* C10.  The aliasing constructor applied to a bound parent yields a handle
\* with the given pointer and the block of the parent, and the strong count
\* grows by one.  As long as any handle, aliasing or not, is bound to a block
\* the object of the block is alive.  When an object is destroyed it is the
\* object the block was created for, also when the last handle is an
\* aliasing one that observes another pointer.
C10_Alias ==
    /\ [](Running =>
            \A s \in SS : GetS(heap, s).live /\ GetS(heap, s).block # Null =>
                /\ Live(GetS(heap, s).block)
                /\ heap.b[GetS(heap, s).block].alive
                /\ heap.b[GetS(heap, s).block].nDeleteObject = 0)
    /\ [][/\ (last'.op = "SharedAlias" /\ GetS(heap, last'.b).block # Null) =>
               LET p == GetS(heap, last'.b).block IN
               /\ last'.res = "ok"
               /\ sp'[last'.a] = Handle(SubPtr(p), p)
               /\ heap'.b[p].strong = heap.b[p].strong + 1
               /\ heap'.b[p].weak = heap.b[p].weak
          /\ \A b \in B :
               heap'.b[b].nDeleteObject # heap.b[b].nDeleteObject =>
                  /\ heap'.b[b].destroyed = ObjPtr(b)
                  /\ heap'.b[b].destroyed # SubPtr(b)
                  /\ heap'.fault = "none" => StrongHolders(b)' = {}]_vars

\* C10 witness: the parent handle has been destroyed, the aliasing handle is
\* the only holder left, and the object of the block is alive.
C10_Witness ==
    /\ last.op = "SharedDestroy"
    /\ \E s \in S :
          /\ sp[s].live /\ sp[s].block # Null
          /\ sp[s].ptr = SubPtr(sp[s].block)
          /\ heap.b[sp[s].block].strong = 1
          /\ heap.b[sp[s].block].alive
          /\ StrongHolders(sp[s].block) = {s}

\* The operations of WeakPtr that return no SharedPtr.
WeakOps == {"WeakDefault", "WeakCopy", "WeakMove", "WeakFromShared",
            "WeakCopyAssign", "WeakMoveAssign", "WeakDestroy", "WeakReset",
            "WeakSwap"}

\* C11.  No operation of WeakPtr but Lock() changes a strong count: the
\* constructors, the assignments, Reset, Swap and the destructor leave the
\* strong count of every block as it was, destroy no object, and leave no
\* object alive whose strong count is zero.  UseCount() and Expired() read
\* the strong counter and write nothing.
C11_WeakKeepsStrong ==
    [][last'.op \in WeakOps =>
         /\ last'.res = "ok"
         /\ sp' = sp
         /\ \A b \in B :
               /\ heap'.b[b].strong = heap.b[b].strong
               /\ heap'.b[b].nDeleteObject = heap.b[b].nDeleteObject
               /\ heap'.b[b].alive = heap.b[b].alive
               /\ (heap'.b[b].state = "live" /\ heap'.b[b].strong = 0)
                     => ~heap'.b[b].alive
         /\ \A w \in WS :
               GetW(heap, w)'.live /\ GetW(heap, w)'.block # Null =>
                  /\ UseCount(GetW(heap, w))'
                        = heap.b[GetW(heap, w)'.block].strong
                  /\ Expired(GetW(heap, w))'
                        = (heap.b[GetW(heap, w)'.block].strong = 0)]_vars

\* C11 witness: a WeakPtr bound to an expired block has been copy-assigned
\* from a WeakPtr of a block with a living object and two owners.
C11_Witness ==
    /\ last.op = "WeakCopyAssign" /\ last.a # last.b
    /\ GetW(heap, last.a).block # Null
    /\ heap.b[GetW(heap, last.a).block].strong = 2
    /\ heap.b[GetW(heap, last.a).block].alive
    /\ \E b \in B : Freed(b) /\ heap.b[b].freedBy = "weak"

\* C12.  SharedFromThis() on an object wired by the raw-pointer constructor
\* or by MakeShared, called while a SharedPtr holds the object, returns a
\* SharedPtr with the pointer and block of the object and the strong count
\* grows by exactly one.  Called when the strong count is zero, from the
\* destructor of the object, it returns an empty handle, and the object is
\* not destroyed a second time.
C12_SharedFromThis ==
    /\ [](/\ heap.fault # "doubleDelete"
          /\ \A b \in B : /\ heap.b[b].dtorLock # "bound"
                          /\ heap.b[b].nDeleteObject <= 1)
    /\ [][\A o \in B :
            (/\ last'.op = "SharedFromThis"
             /\ GetS(heap, last'.b).block = o
             /\ heap.b[o].wtBlock = o)
            => /\ heap.b[o].strong >= 1
               /\ last'.res = "ok"
               /\ sp'[last'.a] = Handle(ObjPtr(o), o)
               /\ heap'.b[o].strong = heap.b[o].strong + 1
               /\ heap'.b[o].weak = heap.b[o].weak
               /\ heap'.b[o].alive
               /\ \A x \in B \ {o} : heap'.b[x] = heap.b[x]]_vars

\* C12 witness: SharedFromThis() has returned a second owner of a wired
\* object, after the destructor of another wired object had been given an
\* empty handle.
C12_Witness ==
    /\ last.op = "SharedFromThis" /\ last.res = "ok"
    /\ sp[last.a].block # Null
    /\ heap.b[sp[last.a].block].strong = 2
    /\ heap.b[sp[last.a].block].wtBlock = sp[last.a].block
    /\ \E b \in B : heap.b[b].dtorLock = "empty" /\ heap.b[b].nDeleteObject = 1

\* The object of block b embeds the mixin and its weak_this_ is bound to b.
Wired(b) == heap.b[b].alive /\ heap.b[b].mixin /\ heap.b[b].wtBlock = b

\* C13.  The step that releases the last SharedPtr of a wired mixin object
\* destroys the object once and takes the registration of weak_this_ off the
\* weak count exactly once: the weak count left is the number of WeakPtr
\* handles still bound.  With none bound the block is freed in that step;
\* otherwise it stays and is freed, once, by the step that releases the last
\* of them.
C13_MixinRelease ==
    /\ [](/\ heap.fault \notin {"doubleFree", "doubleDelete"}
          /\ \A b \in B : heap.b[b].nFree <= 1 /\ heap.b[b].weak >= 0)
    /\ [][\A b \in B :
            /\ (Wired(b) /\ heap.b[b].strong = 1 /\ heap'.b[b].strong = 0)
                  => /\ heap'.fault = "none"
                     /\ heap'.b[b].nDeleteObject = 1
                     /\ heap'.b[b].weak = Cardinality(WeakHolders(b)')
                     /\ heap'.b[b].weak = heap.b[b].weak - 1
                     /\ IF WeakHolders(b)' = {}
                        THEN heap'.b[b].state = "freed" /\ heap'.b[b].nFree = 1
                        ELSE heap'.b[b].state = "live" /\ heap'.b[b].nFree = 0
            /\ (/\ Live(b) /\ heap.b[b].mixin /\ heap.b[b].strong = 0
                /\ heap.b[b].dtorLock = "empty"
                /\ WeakHolders(b) # {} /\ WeakHolders(b)' = {})
                  => /\ heap'.b[b].state = "freed"
                     /\ heap'.b[b].nFree = 1
                     /\ heap'.b[b].nDeleteObject = 1]_vars

\* C13 witness: one wired object was destroyed and its block freed in the
\* same step; another was destroyed with a WeakPtr outstanding, and its block
\* is allocated with a weak count of one.
C13_Witness ==
    /\ last.op \in ReleaseOps
    /\ \E b \in B : /\ Freed(b) /\ heap.b[b].freedBy = "shared"
                    /\ heap.b[b].dtorLock = "empty"
    /\ \E b \in B : /\ Live(b) /\ heap.b[b].mixin /\ heap.b[b].strong = 0
                    /\ heap.b[b].dtorLock = "empty"
                    /\ heap.b[b].weak = 1
                    /\ Cardinality(WeakHolders(b)) = 1

\* C14 (the claim as stated).  No leak: a block to which no live SharedPtr
\* and no live WeakPtr is bound, weak_this_ of the mixin objects and of their
\* copies included, has been freed and its object destroyed.
C14_NoLeak ==
    Running =>
       \A b \in B :
          (/\ Allocated(b)
           /\ StrongHolders(b) = {} /\ WeakHolders(b) = {}
           /\ MixinHolders(b) = {} /\ CopyHolders(b) = {})
          => Freed(b) /\ heap.b[b].nDeleteObject = 1

\* C15 (the claim as stated).  When the allocation of a control block fails
\* in the raw-pointer constructor, in Reset(ptr) or in MakeShared, the object
\* passed in is not left without an owner, every handle and every block that
\* existed before the call is as it was, and no handle is bound to a block
\* that does not count it.
C15_AllocFailure ==
    [][last'.res = "bad_alloc" =>
         /\ \A b \in B : heap'.b[b].state # "orphan" \/ heap.b[b].state = "orphan"
         /\ sp' = sp /\ wp' = wp
         /\ \A b \in B : Allocated(b) => heap'.b[b] = heap.b[b]
         /\ \A b \in B : heap'.b[b].state = "live" =>
                heap'.b[b].strong = Cardinality(StrongHolders(b)')
         /\ \A k \in SS : GetS(heap, k)'.live /\ GetS(heap, k)'.block # Null =>
                heap'.b[GetS(heap, k)'.block].state = "live"]_vars

\* The live UniquePtr variables that hold the pointer r.
Owners(r) == {u \in U : up[u].live /\ up[u].ptr = r}

\* C16.  The destruction policy is called at most once on a pointer: a
\* pointer that was adopted and not handed back by Release() is held by
\* exactly one UniquePtr or has been passed to the policy exactly once, and a
\* pointer handed back by Release() is never passed to the policy.  Move
\* construction leaves the source null and the target with the pointer and
\* calls no policy; destroying the owner calls the policy once, on the
\* pointer it holds.
C16_PolicyOnce ==
    /\ [](/\ raw.fault = "none"
          /\ \A r \in R :
                /\ raw.o[r].nPolicy <= 1
                /\ raw.o[r].state = "owned" =>
                      raw.o[r].nPolicy = 0 /\ Cardinality(Owners(r)) = 1
                /\ raw.o[r].state = "deleted" =>
                      raw.o[r].nPolicy = 1 /\ Owners(r) = {}
                /\ raw.o[r].state \in {"released", "none"} =>
                      raw.o[r].nPolicy = 0 /\ Owners(r) = {})
    /\ [][/\ last'.op = "UniqueMove" =>
               /\ up'[last'.a] = UHandle(up[last'.b].ptr)
               /\ up'[last'.b] = UHandle(Null)
               /\ raw'.o = raw.o /\ raw'.calls = <<>>
          /\ (last'.op = "UniqueDestroy" /\ up[last'.a].ptr # Null) =>
               /\ raw'.calls = <<up[last'.a].ptr>>
               /\ raw'.o[up[last'.a].ptr].state = "deleted"
               /\ raw'.o[up[last'.a].ptr].nPolicy = 1
          /\ last'.op = "UniqueRelease" =>
               /\ last'.b = up[last'.a].ptr
               /\ up'[last'.a] = UHandle(Null)
               /\ raw'.calls = <<>>
               /\ \A r \in R : raw'.o[r].nPolicy = raw.o[r].nPolicy]_vars

\* C16 witness: the UniquePtr that received a pointer by a move has been
\* destroyed, the policy was called on that pointer, the moved-from
\* UniquePtr is null, and another pointer has been handed back by Release().
C16_Witness ==
    /\ last.op = "UniqueDestroy"
    /\ Len(raw.calls) = 1
    /\ \E r \in R : raw.calls[1] = r /\ raw.o[r].nPolicy = 1
    /\ \E r \in R : raw.o[r].state = "released"
    /\ \E u \in U : up[u].live /\ up[u].ptr = Null

\* C17.  No two live UniquePtr variables hold the same non-null pointer, and
\* the source of a move construction or of a move assignment holds null
\* afterwards.
C17_SoleOwner ==
    /\ [](\A u \in U, v \in U :
             (u # v /\ up[u].live /\ up[v].live /\ up[u].ptr # Null)
                => up[u].ptr # up[v].ptr)
    /\ [][(/\ last'.op \in {"UniqueMove", "UniqueMoveAssign"}
           /\ last'.a # last'.b /\ last'.res = "ok")
            => /\ up'[last'.b] = UHandle(Null)
               /\ up'[last'.a] = UHandle(up[last'.b].ptr)]_vars

\* C17 witness: a UniquePtr that owned one object has been move-assigned
\* from a UniquePtr that owned another.
C17_Witness ==
    /\ last.op = "UniqueMoveAssign" /\ last.a # last.b
    /\ up[last.a].ptr # Null
    /\ up[last.b] = UHandle(Null)
    /\ Len(raw.calls) = 1 /\ raw.calls[1] # Null

\* C18 (the claim as stated).  Reset(p), move assignment and assignment of
\* nullptr call the destruction policy exactly once, on the pointer the
\* target holds, when that pointer is not null, and do not call it when the
\* target is empty; the target holds the new pointer afterwards.
C18_ResetPolicy ==
    [][(/\ last'.op \in {"UniqueReset", "UniqueMoveAssign", "UniqueAssignNull"}
        /\ last'.op = "UniqueMoveAssign" => last'.a # last'.b)
        => /\ raw'.calls = IF up[last'.a].ptr # Null THEN <<up[last'.a].ptr>>
                           ELSE <<>>
           /\ last'.res = "ok"
           /\ up'[last'.a].ptr = IF last'.op = "UniqueReset" THEN last'.b
                                 ELSE IF last'.op = "UniqueMoveAssign"
                                 THEN up[last'.b].ptr
                                 ELSE Null]_vars

\* C19.  In a program that counts its allocations: a block made by MakeShared
\* stands for one new-expression, its object is destroyed in place (no
\* delete-expression) and freeing the block is the only delete-expression; a
\* block made by the raw-pointer constructor or by Reset(ptr) stands for two
\* new-expressions (the object, the block), destroying the object is one
\* delete-expression and freeing the block the second.
C19_Allocations ==
    (Counts /\ ~Faulted(heap)) =>
      \A b \in B : heap.b[b].state \in {"live", "freed"} =>
        /\ heap.b[b].kind \in {"holder", "pointer"}
        /\ heap.b[b].kind = "holder" =>
              /\ heap.b[b].nNew = 1
              /\ Live(b) => heap.b[b].nDelete = 0
              /\ Freed(b) => heap.b[b].nDelete = 1 /\ heap.b[b].nDeleteObject = 1
        /\ heap.b[b].kind = "pointer" =>
              /\ heap.b[b].nNew = 2
              /\ heap.b[b].alive => heap.b[b].nDelete = 0
              /\ (Live(b) /\ ~heap.b[b].alive) => heap.b[b].nDelete = 1
              /\ Freed(b) => heap.b[b].nDelete = 2 /\ heap.b[b].nDeleteObject = 1

\* C19 witness: a block made by MakeShared and a block made from a raw
\* pointer have both been torn down by the release of their last handle.
C19_Witness ==
    /\ Counts /\ ~Faulted(heap)
    /\ last.op \in {"SharedDestroy", "SharedReset"}
    /\ \E b \in B : Freed(b) /\ heap.b[b].kind = "holder" /\ heap.b[b].nDelete = 1
    /\ \E b \in B : Freed(b) /\ heap.b[b].kind = "pointer" /\ heap.b[b].nDelete = 2

\* C20 (the claim as stated).  When the object of block b owns, in a member
\* that is not weak_this_, the only WeakPtr bound to b, the release of the
\* last SharedPtr bound to b destroys the object, frees b exactly once, and
\* reads no counter of b after b has been freed.
C20_SelfWeakRelease ==
    [][\A b \in B :
         (/\ xtype = "selfweak" /\ ~Faulted(heap)
          /\ Live(b) /\ heap.b[b].alive
          /\ heap.b[b].strong = 1 /\ heap.b[b].weak = 1
          /\ heap.b[b].member = "self" /\ heap.b[b].mBlock = b
          /\ heap'.b[b].nDeleteObject = 1)
         => /\ heap'.fault = "none"
            /\ heap'.b[b].state = "freed"
            /\ heap'.b[b].nFree = 1]_vars

\* C21 (the claim as stated).  When a SharedPtr that is the only owner of an
\* object is copy- or move-assigned from the SharedPtr member of that object,
\* and the member is bound to another block, the target ends bound to the
\* pointer and block the member held, the object of that block is alive with
\* a strong count of at least 1, the object the target held has been
\* destroyed once, and the member is not read after its object was destroyed.
C21_ListIdiom ==
    [][\A s \in SS, o \in B :
         (/\ last'.op \in {"SharedCopyAssign", "SharedMoveAssign"}
          /\ last'.a = s /\ last'.b = MemberS(o)
          /\ ~Faulted(heap)
          /\ s # MemberS(o)
          /\ GetS(heap, s).live /\ GetS(heap, s).block = o
          /\ Live(o) /\ heap.b[o].alive /\ heap.b[o].strong = 1
          /\ GetS(heap, MemberS(o)).live
          /\ GetS(heap, MemberS(o)).block \notin {Null, o})
         => LET n == GetS(heap, MemberS(o)).block IN
            /\ heap'.fault = "none"
            /\ GetS(heap, s)' = GetS(heap, MemberS(o))
            /\ heap'.b[n].state = "live" /\ heap'.b[n].alive
            /\ heap'.b[n].strong >= 1
            /\ heap'.b[o].nDeleteObject = 1]_vars

\* C22 (the claim as stated).  When an object that embeds the mixin and whose
\* weak_this_ is unbound is destroyed, ~EnableSharedFromThis dereferences no
\* null block pointer and changes no weak counter: the operation completes,
\* the object has been destroyed once, and the weak count of every block
\* that is not freed by the operation is what it was.
C22_UnwiredDestroy ==
    [][\A b \in B :
         (/\ ~Faulted(heap)
          /\ Live(b) /\ heap.b[b].alive
          /\ heap.b[b].mixin /\ heap.b[b].wtBlock = Null
          /\ ~heap'.b[b].alive)
         => /\ heap'.fault = "none"
            /\ heap'.b[b].nDeleteObject = 1
            /\ \A x \in B : heap'.b[x].state = "live"
                                => heap'.b[x].weak = heap.b[x].weak]_vars

\* C23.  A promotion that throws BadWeakPtr leaves everything as it was: the
\* counters and the object of every block, the WeakPtr it was applied to,
\* every other SharedPtr and WeakPtr of the client and of the objects; the
\* SharedPtr under construction does not come to exist.  Nothing but a
\* promotion throws BadWeakPtr.
C23_FailedPromote ==
    [][last'.res = "BadWeakPtr" =>
         /\ last'.op = "SharedPromote"
         /\ heap' = heap
         /\ sp' = sp /\ wp' = wp
         /\ ~sp'[last'.a].live
         /\ \A k \in SS : GetS(heap, k)' = GetS(heap, k)
         /\ \A k \in WS : GetW(heap, k)' = GetW(heap, k)]_vars

\* C23 witness: a promotion has thrown BadWeakPtr for a WeakPtr whose block
\* has lost its object, while a SharedPtr of the client owns another object.
C23_Witness ==
    /\ last.op = "SharedPromote" /\ last.res = "BadWeakPtr"
    /\ ~sp[last.a].live
    /\ LET b == GetW(heap, last.b).block IN
         /\ b # Null
         /\ Live(b) /\ heap.b[b].strong = 0 /\ heap.b[b].weak >= 1
         /\ heap.b[b].nDeleteObject = 1
         /\ \E s \in S : sp[s].live /\ sp[s].block \notin {Null, b}

\* C24 (the claim as stated).  With either header, the aliasing constructor
\* applied to a parent with a null block yields a handle with the given
\* pointer, a null block and UseCount() = 0, and touches no block; destroying
\* such a handle changes no counter and destroys nothing.
C24_AliasEmptyParent ==
    [][\A s \in S :
        /\ (/\ last'.op = "SharedAlias" /\ last'.a = s /\ ~Faulted(heap)
            /\ GetS(heap, last'.b).block = Null)
           => /\ last'.res = "ok"
              /\ heap' = heap
              /\ sp'[s] = Handle(SubPtr(Null), Null)
              /\ UseCount(sp[s])' = 0
        /\ (/\ last'.op = "SharedDestroy" /\ last'.a = s /\ ~Faulted(heap)
            /\ sp[s].ptr # Null /\ sp[s].block = Null)
           => /\ last'.res = "ok"
              /\ heap' = heap
              /\ ~sp'[s].live]_vars

====
